---- MODULE Spec2Model ----
(***************************************************************************)
(* A model of the three batch pipelines of the momentum repository:        *)
(*   generate.py  the Synthetic Food Generator (loop, SQL rendering),      *)
(*   clean.py     the Nutrition Extractor (profile merging),               *)
(*   clean2.py    the Deduplicator (keep-first, removal summary).          *)
(* Text is a sequence of one-character strings, so that strip, the regex   *)
(* filter and the quote doubling are computed character by character.      *)
(***************************************************************************)
EXTENDS Integers, Sequences, FiniteSets, TLC

VARIABLES
    \* generate.py, main()
    pc,               \* position in main(): top, call, parse, tally, sleep2, sleep3, final, done, crashed
    iteration,        \* generate.py:70
    empty_iterations, \* generate.py:72
    generated_foods,  \* generate.py:67
    existing_names,   \* generate.py:68
    new_count,        \* generate.py:110
    lines_read,       \* how many lines of the current response the for loop has consumed
    files,            \* the files written so far: name -> contents
    last_read,        \* history: the response line read last, and the state it met
    writes,           \* history: every write so far, in order: <<[name, contents]>>
    zero_streak,      \* history: consecutive finished iterations that accepted no record
    interrupted       \* history: where the last KeyboardInterrupt arrived ("no": none yet)

VARIABLES
    \* clean.py
    ex_pc,            \* "rows": between rows (line 16); "row": inside a row's try; "saved"
    unique_foods,     \* clean.py:13, in insertion order: <<[name, profiles]>>
    rows_done,        \* rows of the file consumed so far
    dishes_done,      \* dishes of the file consumed so far
    nan_made,         \* float objects made by float("nan"): each is a value of its own
    csv_rows,         \* the rows save_to_csv wrote
    row_names,        \* history: the names of the dishes merged from the current row
    parsed_count,     \* history: name -> dishes of the rows that parsed without error
    seen              \* history: <<name, profile>> -> dishes merged with that pair

ext_vars == << ex_pc, unique_foods, rows_done, dishes_done, nan_made, csv_rows,
               row_names, parsed_count, seen >>

VARIABLES
    \* clean2.py
    df,               \* the frame pd.read_csv returned: <<[name, profile_no, occurrences]>>
    modes_run,        \* the deduplication functions that have run
    df_deduplicated,  \* clean2.py:19, of remove_duplicate_food_names
    unique_df,        \* clean2.py:50, of remove_duplicates_and_summarize
    summary_df,       \* clean2.py:70
    df_unique         \* clean2.py:98, of simple_deduplicate

dd_vars == << df, modes_run, df_deduplicated, unique_df, summary_df, df_unique >>

VARIABLES
    \* one call of clean_numeric_value
    cnv_value, cnv_default, cnv_result

num_vars == << cnv_value, cnv_default, cnv_result >>

gen_vars == << pc, iteration, empty_iterations, generated_foods, existing_names,
               new_count, lines_read, files, writes, zero_streak, interrupted >>

(***************************************************************************)
(* Bounds of the model.                                                    *)
(***************************************************************************)
MaxIter == 11          \* iterations of the generation loop that are explored
MaxLines == 2          \* lines per response
MaxRows == 3           \* rows of the diary export
MaxDishes == 4         \* dishes of the diary export, all rows together
MaxCsvRows == 5        \* rows of the deduplicator's input
MaxValueLen == 5       \* characters of a value given to clean_numeric_value
MaxFinalFoods == 2     \* accepted records when the final output is studied alone

(***************************************************************************)
(* Python text helpers.                                                    *)
(***************************************************************************)
Whitespace == {" ", "\t", "\n"}

Digits == {"0", "1", "2", "3", "4", "5", "6", "7", "8", "9"}

RECURSIVE LStrip(_)
LStrip(s) ==
    IF s # << >> /\ Head(s) \in Whitespace THEN LStrip(Tail(s)) ELSE s

RECURSIVE RStrip(_)
RStrip(s) ==
    IF s # << >> /\ s[Len(s)] \in Whitespace
    THEN RStrip(SubSeq(s, 1, Len(s) - 1)) ELSE s

\* str.strip()
Strip(s) == RStrip(LStrip(s))

\* str.replace("'", "''")
RECURSIVE ReplaceQuote(_)
ReplaceQuote(s) ==
    IF s = << >> THEN << >>
    ELSE (IF Head(s) = "'" THEN << "'", "'" >> ELSE << Head(s) >>)
         \o ReplaceQuote(Tail(s))

(***************************************************************************)
(* Python values.  A text or JSON scalar is [t, s]: t is "str", "num",     *)
(* "bool" or "null" and s its text (str(value) for a number or a bool).    *)
(* A number is [k, m, e]: k is "int" or "float", and the value is          *)
(* m / 10^e with m not divisible by 10 unless e = 0 (one record per        *)
(* value, so 1.50 = 1.5).                                                  *)
(***************************************************************************)
None == [t |-> "null", s |-> << >>]

Str(s) == [t |-> "str", s |-> s]

Num(s) == [t |-> "num", s |-> s]

PyInt(n) == [k |-> "int", m |-> n, e |-> 0]

\* A variant that returns the text as it is.
escape_sql_string_NoEscape(text) ==
    IF text = None THEN << >> ELSE text.s

\* generate.py:23-28
escape_sql_string(text) ==
    IF text = None THEN << >> ELSE ReplaceQuote(text.s)

\* str(value) of a JSON scalar: the text itself, or the number's literal
PyStr(value) == value.s

DigitVal(c) ==
    CASE c = "0" -> 0 [] c = "1" -> 1 [] c = "2" -> 2 [] c = "3" -> 3
      [] c = "4" -> 4 [] c = "5" -> 5 [] c = "6" -> 6 [] c = "7" -> 7
      [] c = "8" -> 8 [] c = "9" -> 9

RECURSIVE DigitsToInt(_)
DigitsToInt(s) ==
    IF s = << >> THEN 0
    ELSE 10 * DigitsToInt(SubSeq(s, 1, Len(s) - 1)) + DigitVal(s[Len(s)])

IsDigit(c) == c \in Digits

CountOf(c, s) == Cardinality({i \in 1..Len(s) : s[i] = c})

RECURSIVE Normalize(_, _)
Normalize(m, e) ==
    IF e > 0 /\ m % 10 = 0 THEN Normalize(m \div 10, e - 1)
    ELSE [k |-> "float", m |-> m, e |-> e]

\* float(text) for a text of digits and points: the value, or ValueError
PyFloat(text) ==
    LET digits == SelectSeq(text, IsDigit)
        dots == CountOf(".", text)
        point == CHOOSE i \in 1..Len(text) : text[i] = "."
        frac == IF dots = 0 THEN 0 ELSE Len(text) - point
    IN  IF digits = << >> \/ dots > 1
        THEN [exc |-> "ValueError", val |-> PyInt(0)]
        ELSE [exc |-> "none", val |-> Normalize(DigitsToInt(digits), frac)]

\* re.sub(r'[^\d.]', '', text)
ReSubNonNumeric(text) == SelectSeq(text, LAMBDA c : IsDigit(c) \/ c = ".")

Return(v) == [exc |-> "none", val |-> v]

\* A handler that lets the exception through.
BareExcept_Reraise(body, default) == body

\* The handler of generate.py:59-60: a bare except, which also takes a
\* KeyboardInterrupt delivered while the try block runs.
BareExcept(body, default) ==
    IF body.exc # "none" THEN Return(default) ELSE body

\* generate.py:49-60.  signal: a KeyboardInterrupt arrives inside the try.
clean_numeric_value(value, default, signal) ==
    IF value = None THEN Return(default)
    ELSE LET cleaned == ReSubNonNumeric(PyStr(value))
             body == IF signal THEN [exc |-> "KeyboardInterrupt", val |-> PyInt(0)]
                     ELSE IF cleaned # << >> THEN PyFloat(cleaned)
                     ELSE Return(default)
         IN  BareExcept(body, default)

(***************************************************************************)
(* generate.py: the Synthetic Food Generator.                              *)
(***************************************************************************)
\* generate.py:10-21
EXISTING_FOODS ==
    << <<"C", "h", "i", "c", "k", "e", "n", " ", "B", "r", "e", "a", "s", "t", " ", "(", "R", "a", "w", ",", " ", "B", "o", "n", "e", "l", "e", "s", "s", ",", " ", "S", "k", "i", "n", "l", "e", "s", "s", ")">>,
       <<"T", "u", "r", "k", "e", "y", " ", "B", "r", "e", "a", "s", "t", " ", "(", "G", "r", "o", "u", "n", "d", ",", " ", "9", "9", "%", " ", "L", "e", "a", "n", ")">>,
       <<"S", "a", "l", "m", "o", "n", " ", "(", "A", "t", "l", "a", "n", "t", "i", "c", ",", " ", "R", "a", "w", ")">>,
       <<"G", "r", "e", "e", "k", " ", "Y", "o", "g", "u", "r", "t", " ", "(", "N", "o", "n", "-", "F", "a", "t", ",", " ", "P", "l", "a", "i", "n", ")">>,
       <<"O", "a", "t", "s", " ", "(", "R", "o", "l", "l", "e", "d", ",", " ", "D", "r", "y", ")">>,
       <<"B", "r", "o", "w", "n", " ", "R", "i", "c", "e", " ", "(", "R", "a", "w", ")">>,
       <<"A", "l", "m", "o", "n", "d", "s", " ", "(", "R", "a", "w", ")">>,
       <<"W", "h", "e", "y", " ", "P", "r", "o", "t", "e", "i", "n", " ", "I", "s", "o", "l", "a", "t", "e">>,
       <<"B", "r", "o", "c", "c", "o", "l", "i", " ", "(", "R", "a", "w", ")">>,
       <<"T", "o", "f", "u", " ", "(", "E", "x", "t", "r", "a", " ", "F", "i", "r", "m", ")">> >>

\* the example of the specification: a name and a quoted number
FoodBarX ==
    ("name" :> Str(<<"B", "a", "r", " ", "X">>)
        @@ "calories" :> Str(<<"1", ",", "2", "0", "0">>))

\* the same name with surrounding blanks, and every field given
FoodBarXPadded ==
    ("name" :> Str(<<" ", "B", "a", "r", " ", "X", " ">>)
        @@ "brand" :> Str(<<" ", "J", "o", "e", "'", "s", " ">>)
        @@ "calories" :> Str(<<"1", ".", "2", ".", "3">>)
        @@ "protein" :> Num(<<"1", "2", ".", "5">>)
        @@ "carbs" :> Str(<<"n", "/", "a">>)
        @@ "fat" :> Str(<<".", "5">>)
        @@ "fiber" :> Num(<<"3">>)
        @@ "sugar" :> Str(<<"-", "2">>)
        @@ "serving_size" :> Str(<<"3", "0", "g">>)
        @@ "serving_unit" :> Str(<<" ", "m", "l">>)
        @@ "category" :> Str(<<"B", "a", "r", "s">>))

\* a name with single quotes
FoodOBrien ==
    ("name" :> Str(<<"O", "'", "B", "r", "i", "e", "n", "'", "s">>)
        @@ "brand" :> Str(<<"O", "'", "B">>)
        @@ "serving_size" :> Str(<<".">>)
        @@ "category" :> Str(<<"S", "n", "a", "c", "k", "'", "s">>))

\* a seeded name
FoodSeeded ==
    ("name" :> Str(<<"A", "l", "m", "o", "n", "d", "s", " ", "(", "R", "a", "w", ")">>)
        @@ "calories" :> Num(<<"5", "7", "9">>))

\* a seeded name in another case
FoodSeededLower ==
    ("name" :> Str(<<"a", "l", "m", "o", "n", "d", "s", " ", "(", "r", "a", "w", ")">>))

\* a name of blanks only
FoodBlankName ==
    ("name" :> Str(<<" ", " ">>)
        @@ "brand" :> Str(<<"B">>))

\* no name key
FoodNoName ==
    ("brand" :> Str(<<"B">>))

\* a null name
FoodNullName ==
    ("name" :> None)

\* a null brand
FoodNullBrand ==
    ("name" :> Str(<<"B", "a", "r", " ", "Y">>)
        @@ "brand" :> None)

\* a serving unit that is a number
FoodNumberUnit ==
    ("name" :> Str(<<"B", "a", "r", " ", "Y">>)
        @@ "serving_unit" :> Num(<<"1">>))

\* a null category
FoodNullCategory ==
    ("name" :> Str(<<"B", "a", "r", " ", "Z">>)
        @@ "category" :> None)

\* generate.py:71
max_empty_iterations == 10

\* A response line after line.strip(): whether it starts with "{" and ends
\* with "}", and what json.loads makes of it (an object, or an error).
Line(starts, ends, valid, obj) ==
    [starts |-> starts, ends |-> ends, valid |-> valid, obj |-> obj]

\* The response lines the endpoint may send.
ResponseLines ==
    { Line(FALSE, FALSE, FALSE, << >>),      \* free text
      Line(TRUE, FALSE, FALSE, << >>),       \* an object left open
      Line(TRUE, TRUE, FALSE, << >>),        \* braces around malformed JSON
      Line(TRUE, TRUE, TRUE, << >>),         \* {}
      Line(TRUE, TRUE, TRUE, FoodBarX),
      Line(TRUE, TRUE, TRUE, FoodBarXPadded),
      Line(TRUE, TRUE, TRUE, FoodSeeded),
      Line(TRUE, TRUE, TRUE, FoodSeededLower),
      Line(TRUE, TRUE, TRUE, FoodBlankName),
      Line(TRUE, TRUE, TRUE, FoodNoName),
      Line(TRUE, TRUE, TRUE, FoodNullName),
      Line(TRUE, TRUE, TRUE, FoodNullBrand),
      Line(TRUE, TRUE, TRUE, FoodNumberUnit) }

\* The numeric fields, in the order generate.py:124-130 evaluates them.
NumericFields ==
    << "calories", "protein", "carbs", "fat", "fiber", "sugar", "serving_size" >>

\* generate.py:124-130, the default of each numeric field
DefaultOf(field) == IF field = "serving_size" THEN PyInt(100) ELSE PyInt(0)

\* dict.get(key, default)
Get(food, key, default) == IF key \in DOMAIN food THEN food[key] ELSE default

\* value.strip(): the stripped text, or AttributeError when value is no text
PyStrip(value) ==
    IF value.t = "str" THEN [exc |-> "none", val |-> Strip(value.s)]
    ELSE [exc |-> "AttributeError", val |-> << >>]

\* generate.py:121-135.  signal names the numeric field during whose cleaning
\* a KeyboardInterrupt arrives ("none": no interrupt).
CleanedFood(food, food_name, signal) ==
    LET num(f) == clean_numeric_value(Get(food, f, None), DefaultOf(f), signal = f).val
    IN  [name |-> food_name,
         brand |-> PyStrip(Get(food, "brand", Str(<<"G", "e", "n", "e", "r", "i", "c">>))).val,
         calories |-> num("calories"),
         protein |-> num("protein"),
         carbs |-> num("carbs"),
         fat |-> num("fat"),
         fiber |-> num("fiber"),
         sugar |-> num("sugar"),
         serving_size |-> num("serving_size"),
         serving_unit |-> PyStrip(Get(food, "serving_unit", Str(<<"g">>))).val,
         category |-> PyStrip(Get(food, "category", Str(<<"U", "n", "k", "n", "o", "w", "n">>))).val,
         confidence |-> <<"e", "s", "t", "i", "m", "a", "t", "e", "d">>,
         popularity |-> PyInt(50)]

\* Whether building the record of generate.py:121-135 raises (a .strip() on
\* a value that is no text).
CleanedFoodRaises(food) ==
    \/ PyStrip(Get(food, "brand", Str(<< >>))).exc # "none"
    \/ PyStrip(Get(food, "serving_unit", Str(<< >>))).exc # "none"
    \/ PyStrip(Get(food, "category", Str(<< >>))).exc # "none"

\* A variant of line 119 that forgets the seen-name set.
IsNewName_NoSeenCheck(food_name, names) == food_name # << >>

\* generate.py:119
IsNewName(food_name, names) == food_name # << >> /\ food_name \notin names

\* generate.py:113-144, one pass of the for loop: the record to append, if any.
\* accepted is FALSE when the line is skipped, dropped or discarded.
ProcessLine(line, names, signal) ==
    LET skip == [accepted |-> FALSE, food |-> << >>]
        name == PyStrip(Get(line.obj, "name", Str(<< >>)))
    IN  IF ~(line.starts /\ line.ends) THEN skip
        ELSE IF ~line.valid THEN skip
        ELSE IF name.exc # "none" THEN skip
        ELSE IF ~IsNewName(name.val, names) THEN skip
        ELSE IF CleanedFoodRaises(line.obj) THEN skip
        ELSE [accepted |-> TRUE, food |-> CleanedFood(line.obj, name.val, signal)]

(***************************************************************************)
(* generate.py:175-208: the final SQL statement.                           *)
(***************************************************************************)
RECURSIVE IntToDigits(_)
IntToDigits(n) ==
    LET d == <<"0", "1", "2", "3", "4", "5", "6", "7", "8", "9">>[(n % 10) + 1]
    IN  IF n < 10 THEN << d >> ELSE IntToDigits(n \div 10) \o << d >>

RECURSIVE Pow10(_)
Pow10(e) == IF e = 0 THEN 1 ELSE 10 * Pow10(e - 1)

RECURSIVE ZeroPad(_, _)
ZeroPad(s, width) == IF Len(s) >= width THEN s ELSE ZeroPad(<<"0">> \o s, width)

\* f"{number}": an int prints its digits, a float prints as repr() does for
\* the magnitudes met here (positional notation, at least one decimal).
PyFormat(number) ==
    IF number.k = "int" THEN IntToDigits(number.m)
    ELSE IntToDigits(number.m \div Pow10(number.e)) \o <<".">>
         \o (IF number.e = 0 THEN <<"0">>
             ELSE ZeroPad(IntToDigits(number.m % Pow10(number.e)), number.e))

Quoted(s) == <<"'">> \o escape_sql_string(Str(s)) \o <<"'">>

CommaSpace == <<",", " ">>

\* generate.py:179
SqlLine(food) ==
    <<"(">> \o Quoted(food.name) \o CommaSpace
    \o Quoted(food.brand) \o CommaSpace
    \o PyFormat(food.calories) \o CommaSpace
    \o PyFormat(food.protein) \o CommaSpace
    \o PyFormat(food.carbs) \o CommaSpace
    \o PyFormat(food.fat) \o CommaSpace
    \o PyFormat(food.fiber) \o CommaSpace
    \o PyFormat(food.sugar) \o CommaSpace
    \o PyFormat(food.serving_size) \o CommaSpace
    \o Quoted(food.serving_unit) \o CommaSpace
    \o Quoted(food.confidence) \o CommaSpace
    \o PyFormat(food.popularity) \o CommaSpace
    \o Quoted(food.category) \o <<")", ",">>

\* "\n".join(sql_lines)
RECURSIVE JoinLines(_)
JoinLines(sql_lines) ==
    IF sql_lines = << >> THEN << >>
    ELSE IF Len(sql_lines) = 1 THEN sql_lines[1]
    ELSE sql_lines[1] \o <<"\n">> \o JoinLines(Tail(sql_lines))

\* str.rstrip(',')
RECURSIVE RStripComma(_)
RStripComma(s) ==
    IF s # << >> /\ s[Len(s)] = ","
    THEN RStripComma(SubSeq(s, 1, Len(s) - 1)) ELSE s

\* generate.py:182-197: the statement's head, kept as one piece of text
SqlHeader == "INSERT INTO public.food_catalog (\n  name, \n  brand, \n  calories, \n  protein, \n  carbs, \n  fat, \n  fiber, \n  sugar, \n  serving_size, \n  serving_unit, \n  confidence, \n  popularity, \n  category\n) VALUES \n"

\* generate.py:177-200
SqlOutput(foods) ==
    LET sql_lines == [i \in 1..Len(foods) |-> SqlLine(foods[i])]
    IN  RStripComma(<< SqlHeader >> \o JoinLines(sql_lines)) \o <<";">>

(***************************************************************************)
(* Files.  A name is <<stem, number text, extension>>.                     *)
(***************************************************************************)
SqlFile == <<"generated_foods", << >>, ".sql">>

JsonFile == <<"generated_foods", << >>, ".json">>

\* A variant of line 155 whose file name leaves the iteration number out.
CheckpointFile_NoNumber(n) == <<"generated_foods_iter_", << >>, ".json">>

\* generate.py:155
CheckpointFile(n) == <<"generated_foods_iter_", IntToDigits(n), ".json">>

\* open(name, 'w') and a write of the whole contents
WriteFile(fs, name, contents) ==
    [n \in DOMAIN fs \cup {name} |-> IF n = name THEN contents ELSE fs[n]]

\* json.dump(foods, f)
JsonDump(foods) == [kind |-> "json", data |-> foods]

(***************************************************************************)
(* generate.py:62-212, main().  An iteration passes through                *)
(*   top    the while test and lines 75-102 (outside the try),             *)
(*   call   query_llm, line 106,                                           *)
(*   parse  the for loop over the response's lines, 112-144,               *)
(*   tally  lines 146-157,                                                 *)
(*   sleep2 line 160, or sleep3 (line 167, in the except handler),         *)
(* and a KeyboardInterrupt may arrive at any of them.                      *)
(***************************************************************************)
\* set(EXISTING_FOODS)
SeededNames == {EXISTING_FOODS[i] : i \in 1..Len(EXISTING_FOODS)}

\* generate.py:67-72
GenInit ==
    /\ pc = "top"
    /\ iteration = 0
    /\ empty_iterations = 0
    /\ generated_foods = << >>
    /\ existing_names = SeededNames
    /\ new_count = 0
    /\ lines_read = 0
    /\ files = << >>
    /\ writes = << >>
    /\ zero_streak = 0
    /\ interrupted = "no"

\* generate.py:74-75
LoopTop ==
    /\ pc = "top"
    /\ IF empty_iterations < max_empty_iterations
       THEN /\ iteration < MaxIter
            /\ iteration' = iteration + 1
            /\ pc' = "call"
       ELSE /\ pc' = "final"
            /\ UNCHANGED iteration
    /\ UNCHANGED << empty_iterations, generated_foods, existing_names, new_count,
                    lines_read, files, writes, zero_streak, interrupted >>

\* generate.py:106-110: the endpoint answers with text
CallReturns ==
    /\ pc = "call"
    /\ pc' = "parse"
    /\ new_count' = 0
    /\ lines_read' = 0
    /\ UNCHANGED << iteration, empty_iterations, generated_foods, existing_names,
                    files, writes, zero_streak, interrupted >>

\* generate.py:106-109 raises (no connection, a body without choices, a
\* content that is no text): the handler of lines 165-166 takes it.
CallRaises ==
    /\ pc = "call"
    /\ pc' = "sleep3"
    /\ zero_streak' = zero_streak + 1
    /\ UNCHANGED << iteration, empty_iterations, generated_foods, existing_names,
                    new_count, lines_read, files, writes, interrupted >>

\* generate.py:112-144, one line of the response.  With signal a field name,
\* a KeyboardInterrupt arrives while clean_numeric_value cleans that field.
ParseLine(line, signal) ==
    /\ pc = "parse"
    /\ lines_read < MaxLines
    /\ LET r == ProcessLine(line, existing_names, signal)
       IN  /\ signal # "none" =>
                r.accepted /\ Get(line.obj, signal, None) # None
           /\ IF r.accepted
              THEN /\ generated_foods' = Append(generated_foods, r.food)
                   /\ existing_names' = existing_names \cup {r.food.name}
                   /\ new_count' = new_count + 1
              ELSE UNCHANGED << generated_foods, existing_names, new_count >>
    /\ lines_read' = lines_read + 1
    /\ interrupted' = IF signal # "none" THEN "numeric" ELSE interrupted
    /\ UNCHANGED << pc, iteration, empty_iterations, files, writes, zero_streak >>

\* the for loop of line 112 is exhausted
EndOfLines ==
    /\ pc = "parse"
    /\ pc' = "tally"
    /\ UNCHANGED << iteration, empty_iterations, generated_foods, existing_names,
                    new_count, lines_read, files, writes, zero_streak, interrupted >>

\* generate.py:154
CheckpointDue(n, foods) == n % 5 = 0 /\ foods # << >>

\* generate.py:146-157
Tally ==
    /\ pc = "tally"
    /\ empty_iterations' = IF new_count > 0 THEN 0 ELSE empty_iterations + 1
    /\ zero_streak' = IF new_count > 0 THEN 0 ELSE zero_streak + 1
    /\ files' = IF CheckpointDue(iteration, generated_foods)
                THEN WriteFile(files, CheckpointFile(iteration), JsonDump(generated_foods))
                ELSE files
    /\ writes' = IF CheckpointDue(iteration, generated_foods)
                 THEN Append(writes, [name |-> CheckpointFile(iteration),
                                      contents |-> JsonDump(generated_foods)])
                 ELSE writes
    /\ pc' = "sleep2"
    /\ UNCHANGED << iteration, generated_foods, existing_names, new_count,
                    lines_read, interrupted >>

\* generate.py:160, then back to the while test
Sleep2 ==
    /\ pc = "sleep2"
    /\ pc' = "top"
    /\ UNCHANGED << iteration, empty_iterations, generated_foods, existing_names,
                    new_count, lines_read, files, writes, zero_streak, interrupted >>

\* generate.py:167, then back to the while test
Sleep3 ==
    /\ pc = "sleep3"
    /\ pc' = "top"
    /\ UNCHANGED << iteration, empty_iterations, generated_foods, existing_names,
                    new_count, lines_read, files, writes, zero_streak, interrupted >>

\* Where a KeyboardInterrupt goes when it arrives at position p: inside the
\* try of lines 104-160 the clause of line 162 breaks out of the loop; at
\* lines 74-102 and in the handler's sleep of line 167 nothing catches it.
InterruptTarget(p) ==
    IF p \in {"call", "parse", "tally", "sleep2"} THEN "final" ELSE "crashed"

\* a KeyboardInterrupt while the loop runs
Interrupt ==
    /\ pc \in {"top", "call", "parse", "tally", "sleep2", "sleep3"}
    /\ pc' = InterruptTarget(pc)
    /\ interrupted' = pc
    /\ UNCHANGED << iteration, empty_iterations, generated_foods, existing_names,
                    new_count, lines_read, files, writes, zero_streak >>

\* generate.py:175-208
FinalOutput ==
    /\ pc = "final"
    /\ files' = IF generated_foods # << >>
                THEN WriteFile(WriteFile(files, SqlFile,
                                         [kind |-> "sql", data |-> SqlOutput(generated_foods)]),
                               JsonFile, JsonDump(generated_foods))
                ELSE files
    /\ writes' = IF generated_foods # << >>
                 THEN writes \o << [name |-> SqlFile,
                                    contents |-> [kind |-> "sql",
                                                  data |-> SqlOutput(generated_foods)]],
                                   [name |-> JsonFile,
                                    contents |-> JsonDump(generated_foods)] >>
                 ELSE writes
    /\ pc' = "done"
    /\ UNCHANGED << iteration, empty_iterations, generated_foods, existing_names,
                    new_count, lines_read, zero_streak, interrupted >>

\* The fields during whose cleaning an interrupt is explored: one of each default.
Signals == {"none", "calories", "serving_size"}

(***************************************************************************)
(* clean.py: the Nutrition Extractor.                                      *)
(* A profile value is [t, m, e, s, id]: a number m / 10^e (t = "number";   *)
(* Python compares 1234 and 1234.0 equal), a text s kept as it was read    *)
(* (t = "text"), None (t = "null"), or the id-th object float("nan") made  *)
(* (t = "nan": no such object equals another).                             *)
(***************************************************************************)
NumberValue(n) == [t |-> "number", m |-> n.m, e |-> n.e, s |-> << >>, id |-> 0]

TextValue(s) == [t |-> "text", m |-> 0, e |-> 0, s |-> s, id |-> 0]

NullValue == [t |-> "null", m |-> 0, e |-> 0, s |-> << >>, id |-> 0]

NanValue(id) == [t |-> "nan", m |-> 0, e |-> 0, s |-> << >>, id |-> id]

\* str.replace(',', '')
RemoveCommas(s) == SelectSeq(s, LAMBDA c : c # ",")

\* clean.py:31-34: the value kept for a nutrient.  A text that float() takes
\* becomes a number ("nan" becomes a NaN object); a text it refuses, and a
\* value that is no text (replace raises AttributeError), is kept as read.
\* The texts met here hold digits, points, commas and letters only.
NutrientValue(value, nan_id) ==
    LET text == RemoveCommas(value.s)
        f == PyFloat(text)
    IN  IF value.t = "str"
        THEN IF text = <<"n", "a", "n">> THEN NanValue(nan_id)
             ELSE IF text = ReSubNonNumeric(text) /\ f.exc = "none" THEN NumberValue(f.val)
             ELSE TextValue(value.s)
        ELSE IF value.t = "num" THEN NumberValue(PyFloat(value.s).val)
        ELSE NullValue

MakesNan(value) == value.t = "str" /\ RemoveCommas(value.s) = <<"n", "a", "n">>

\* nutritions[key] = v
DictSet(d, key, v) == [x \in DOMAIN d \cup {key} |-> IF x = key THEN v ELSE d[x]]

\* clean.py:28-35: the mapping of a dish, or KeyError at a nutrient without a
\* value or a name.  nan: the NaN objects made before.
RECURSIVE BuildNutritions(_, _, _)
BuildNutritions(nutrients, nutritions, nan) ==
    IF nutrients = << >> THEN [exc |-> "none", val |-> nutritions, nan |-> nan]
    ELSE LET nutrient == Head(nutrients)
         IN  IF "value" \notin DOMAIN nutrient \/ "name" \notin DOMAIN nutrient
             THEN [exc |-> "KeyError", val |-> nutritions, nan |-> nan]
             ELSE LET made == IF MakesNan(nutrient["value"]) THEN 1 ELSE 0
                  IN  BuildNutritions(Tail(nutrients),
                                      DictSet(nutritions, nutrient["name"],
                                              NutrientValue(nutrient["value"], nan + made)),
                                      nan + made)

ProfileEq_KeysOnly(existing_nutritions, nutritions) ==
    DOMAIN existing_nutritions = DOMAIN nutritions

\* clean.py:41
ProfileEq(existing_nutritions, nutritions) == existing_nutritions = nutritions

\* clean.py:39-47 on the list of one name
MergeProfile(profiles, nutritions) ==
    LET hits == {i \in 1..Len(profiles) : ProfileEq(profiles[i].nutritions, nutritions)}
        first == CHOOSE i \in hits : \A j \in hits : i <= j
    IN  IF hits # {}
        THEN [profiles EXCEPT ![first].count = @ + 1]
        ELSE Append(profiles, [nutritions |-> nutritions, count |-> 1])

IndexOfName(uf, food_name) ==
    IF \E i \in 1..Len(uf) : uf[i].name = food_name
    THEN CHOOSE i \in 1..Len(uf) : uf[i].name = food_name
    ELSE 0

\* unique_foods[food_name], which a defaultdict creates empty when missing
ProfilesOf(uf, food_name) ==
    IF IndexOfName(uf, food_name) = 0 THEN << >>
    ELSE uf[IndexOfName(uf, food_name)].profiles

\* clean.py:37-47
MergeDish(uf, food_name, nutritions) ==
    LET merged == MergeProfile(ProfilesOf(uf, food_name), nutritions)
    IN  IF IndexOfName(uf, food_name) = 0
        THEN Append(uf, [name |-> food_name, profiles |-> merged])
        ELSE [uf EXCEPT ![IndexOfName(uf, food_name)].profiles = merged]

\* clean.py:24-47 for one dish: the dictionary after it, or the KeyError of
\* a dish without a name or without nutritions
ProcessDish(dish, uf, nan) ==
    IF "name" \notin DOMAIN dish \/ "nutritions" \notin DOMAIN dish
    THEN [exc |-> "KeyError", uf |-> uf, nan |-> nan]
    ELSE LET b == BuildNutritions(dish["nutritions"], << >>, nan)
         IN  IF b.exc # "none" THEN [exc |-> b.exc, uf |-> uf, nan |-> b.nan]
             ELSE [exc |-> "none", uf |-> MergeDish(uf, dish["name"], b.val), nan |-> b.nan]

\* clean.py:77-95: one row per name and profile, in insertion order
RECURSIVE SaveToCsv(_)
SaveToCsv(uf) ==
    IF uf = << >> THEN << >>
    ELSE LET nutritions_list == Head(uf).profiles
         IN  [i \in 1..Len(nutritions_list) |->
                [name |-> Head(uf).name,
                 profile_no |-> IF Len(nutritions_list) > 1 THEN i ELSE 1,
                 occurrences |-> nutritions_list[i].count,
                 nutrients |-> nutritions_list[i].nutritions]]
             \o SaveToCsv(Tail(uf))

\* The dishes a row may hold.
Dishes ==
    << \* two dishes named Oats with the same text
       ("name" :> "Oats"
       @@ "nutritions" :>
          << ("name" :> "Calories" @@ "value" :> Str(<<"1", ",", "2", "3", "4">>)),
             ("name" :> "Fat" @@ "value" :> Str(<<"2">>)) >>),
       \* the same mapping from other text: no separator, a JSON number, another order
       ("name" :> "Oats"
       @@ "nutritions" :>
          << ("name" :> "Fat" @@ "value" :> Num(<<"2">>)),
             ("name" :> "Calories" @@ "value" :> Str(<<"1", "2", "3", "4">>)) >>),
       \* one differing nutrient value
       ("name" :> "Oats"
       @@ "nutritions" :>
          << ("name" :> "Calories" @@ "value" :> Str(<<"1", ",", "2", "3", "4">>)),
             ("name" :> "Fat" @@ "value" :> Str(<<"2", ".", "5">>)) >>),
       \* a value float() refuses is kept as text
       ("name" :> "Oats"
       @@ "nutritions" :>
          << ("name" :> "Calories" @@ "value" :> Str(<<"n", "/", "a">>)) >>),
       \* a value that reads as NaN
       ("name" :> "Oats"
       @@ "nutritions" :>
          << ("name" :> "Calories" @@ "value" :> Str(<<"n", "a", "n">>)) >>),
       \* another name with the first mapping
       ("name" :> "Rice"
       @@ "nutritions" :>
          << ("name" :> "Calories" @@ "value" :> Str(<<"1", ",", "2", "3", "4">>)),
             ("name" :> "Fat" @@ "value" :> Str(<<"2">>)) >>),
       \* a dish without a name
       ("nutritions" :>
          << ("name" :> "Calories" @@ "value" :> Str(<<"1">>)) >>),
       \* a dish without nutritions
       ("name" :> "Oats"),
       \* a nutrient without a value
       ("name" :> "Rice"
       @@ "nutritions" :>
          << ("name" :> "Calories" @@ "value" :> Str(<<"1", ",", "2", "3", "4">>)),
             ("name" :> "Fat") >>) >>

FoodNames == {"Oats", "Rice"}

\* clean.py:13
ExtInit ==
    /\ ex_pc = "rows"
    /\ unique_foods = << >>
    /\ rows_done = 0
    /\ dishes_done = 0
    /\ nan_made = 0
    /\ csv_rows = << >>
    /\ row_names = << >>
    /\ parsed_count = [n \in FoodNames |-> 0]
    /\ seen = << >>

\* clean.py:19 raises on a cell that is no JSON; lines 49-50 log it
JsonLoadsRaises ==
    /\ ex_pc = "rows"
    /\ rows_done < MaxRows
    /\ rows_done' = rows_done + 1
    /\ UNCHANGED << ex_pc, unique_foods, dishes_done, nan_made, csv_rows,
                    row_names, parsed_count, seen >>

\* clean.py:17-22: the cell parses, the walk over its meals begins
RowStart ==
    /\ ex_pc = "rows"
    /\ rows_done < MaxRows
    /\ ex_pc' = "row"
    /\ row_names' = << >>
    /\ UNCHANGED << unique_foods, rows_done, dishes_done, nan_made, csv_rows,
                    parsed_count, seen >>

CountIn(bag, key) == IF key \in DOMAIN bag THEN bag[key] ELSE 0

\* clean.py:24-47: a dish is merged into unique_foods
DishMerged(dish) ==
    /\ ex_pc = "row"
    /\ dishes_done < MaxDishes
    /\ LET r == ProcessDish(dish, unique_foods, nan_made)
       IN  /\ r.exc = "none"
           /\ unique_foods' = r.uf
           /\ nan_made' = r.nan
           /\ LET pair == << dish["name"],
                             BuildNutritions(dish["nutritions"], << >>, nan_made).val >>
              IN  seen' = DictSet(seen, pair, CountIn(seen, pair) + 1)
           /\ row_names' = Append(row_names, dish["name"])
    /\ dishes_done' = dishes_done + 1
    /\ UNCHANGED << ex_pc, rows_done, csv_rows, parsed_count >>

\* clean.py:24-35 raise KeyError at a dish; the handler of lines 49-50 logs
\* it and the loop of line 16 goes on with the next row
DishRaises(dish) ==
    /\ ex_pc = "row"
    /\ dishes_done < MaxDishes
    /\ LET r == ProcessDish(dish, unique_foods, nan_made)
       IN  /\ r.exc # "none"
           /\ unique_foods' = r.uf
           /\ nan_made' = r.nan
    /\ ex_pc' = "rows"
    /\ rows_done' = rows_done + 1
    /\ dishes_done' = dishes_done + 1
    /\ row_names' = << >>
    /\ UNCHANGED << csv_rows, parsed_count, seen >>

\* the walk over a row's meals ends without an error
RowEnd ==
    /\ ex_pc = "row"
    /\ ex_pc' = "rows"
    /\ rows_done' = rows_done + 1
    /\ parsed_count' = [n \in FoodNames |->
                          parsed_count[n]
                          + Cardinality({i \in 1..Len(row_names) : row_names[i] = n})]
    /\ row_names' = << >>
    /\ UNCHANGED << unique_foods, dishes_done, nan_made, csv_rows, seen >>

\* clean.py:108, after the last row
Save ==
    /\ ex_pc = "rows"
    /\ ex_pc' = "saved"
    /\ csv_rows' = SaveToCsv(unique_foods)
    /\ UNCHANGED << unique_foods, rows_done, dishes_done, nan_made, row_names,
                    parsed_count, seen >>

(***************************************************************************)
(* clean2.py: the Deduplicator, on the frame read_csv returns.  A cell of  *)
(* the Food Name column is a text, or missing (NaN).                       *)
(***************************************************************************)
NaN == "NaN"

\* DataFrame.duplicated(subset=['Food Name'], keep=...): a scan in row order
\* (keep = "first") or against it (keep = "last") marking every row whose
\* name the scan has met before; missing names count as one name.
RECURSIVE DuplicatedScan(_, _, _)
DuplicatedScan(names, i, met) ==
    IF i > Len(names) THEN << >>
    ELSE << names[i] \in met >> \o DuplicatedScan(names, i + 1, met \cup {names[i]})

Reverse(s) == [i \in 1..Len(s) |-> s[Len(s) + 1 - i]]

NameColumn(frame) == [i \in 1..Len(frame) |-> frame[i].name]

Duplicated(frame, keep) ==
    IF keep = "first" THEN DuplicatedScan(NameColumn(frame), 1, {})
    ELSE Reverse(DuplicatedScan(Reverse(NameColumn(frame)), 1, {}))

\* frame[mask]
RECURSIVE BoolIndex(_, _)
BoolIndex(frame, mask) ==
    IF frame = << >> THEN << >>
    ELSE (IF Head(mask) THEN << Head(frame) >> ELSE << >>)
         \o BoolIndex(Tail(frame), Tail(mask))

\* ~mask
Invert(mask) == [i \in 1..Len(mask) |-> ~mask[i]]

\* DataFrame.drop_duplicates(subset=['Food Name'], keep=...)
DropDuplicates(frame, keep) == BoolIndex(frame, Invert(Duplicated(frame, keep)))

\* clean2.py:19
remove_duplicate_food_names(frame) == DropDuplicates(frame, "first")

simple_deduplicate_KeepLast(frame) == DropDuplicates(frame, "last")

\* clean2.py:98: keep defaults to 'first'
simple_deduplicate(frame) == DropDuplicates(frame, "first")

\* series == value, element by element: a missing name equals nothing
NameEq(a, b) == a = b /\ a # NaN

\* Series.unique(): the values in order of first appearance, NaN among them
RECURSIVE Unique(_, _)
Unique(names, met) ==
    IF names = << >> THEN << >>
    ELSE (IF Head(names) \in met THEN << >> ELSE << Head(names) >>)
         \o Unique(Tail(names), met \cup {Head(names)})

\* clean2.py:57-67
RECURSIVE Summarize(_, _, _)
Summarize(food_names, duplicates, kept) ==
    IF food_names = << >> THEN << >>
    ELSE LET food_name == Head(food_names)
             food_duplicates == SelectSeq(duplicates, LAMBDA r : NameEq(r.name, food_name))
             kept_row == SelectSeq(kept, LAMBDA r : NameEq(r.name, food_name))
         IN  (IF Len(kept_row) > 0
              THEN << [name |-> food_name,
                       removed_count |-> Len(food_duplicates),
                       kept_profile_no |-> kept_row[1].profile_no,
                       kept_occurrences |-> kept_row[1].occurrences] >>
              ELSE << >>)
             \o Summarize(Tail(food_names), duplicates, kept)

\* clean2.py:48-70
remove_duplicates_and_summarize(frame) ==
    LET duplicate_mask == Duplicated(frame, "first")
        duplicates == BoolIndex(frame, duplicate_mask)
        unique == BoolIndex(frame, Invert(duplicate_mask))
    IN  [unique_df |-> unique,
         summary_df |-> Summarize(Unique(NameColumn(duplicates), {}), duplicates, unique)]

\* The Food Name cells of the input.
CsvNames == {"Oats", "Rice", "Tofu", NaN}

\* A frame of the given names; the other columns tell the rows apart.
FrameOf(names) ==
    [i \in 1..Len(names) |->
        [name |-> names[i], profile_no |-> 1 + (i % 2), occurrences |-> i]]

NameSeqs == UNION {[1..n -> CsvNames] : n \in 0..MaxCsvRows}

DedupInit ==
    /\ df \in {FrameOf(names) : names \in NameSeqs}
    /\ modes_run = {}
    /\ df_deduplicated = << >>
    /\ unique_df = << >>
    /\ summary_df = << >>
    /\ df_unique = << >>

\* clean2.py:3-35
RunRemoveDuplicateFoodNames ==
    /\ "remove_duplicate_food_names" \notin modes_run
    /\ modes_run' = modes_run \cup {"remove_duplicate_food_names"}
    /\ df_deduplicated' = remove_duplicate_food_names(df)
    /\ UNCHANGED << df, unique_df, summary_df, df_unique >>

\* clean2.py:37-91
RunRemoveDuplicatesAndSummarize ==
    /\ "remove_duplicates_and_summarize" \notin modes_run
    /\ modes_run' = modes_run \cup {"remove_duplicates_and_summarize"}
    /\ unique_df' = remove_duplicates_and_summarize(df).unique_df
    /\ summary_df' = remove_duplicates_and_summarize(df).summary_df
    /\ UNCHANGED << df, df_deduplicated, df_unique >>

\* clean2.py:93-109
RunSimpleDeduplicate ==
    /\ "simple_deduplicate" \notin modes_run
    /\ modes_run' = modes_run \cup {"simple_deduplicate"}
    /\ df_unique' = simple_deduplicate(df)
    /\ UNCHANGED << df, df_deduplicated, unique_df, summary_df >>

(***************************************************************************)
(* One call of clean_numeric_value, on any short value.                    *)
(***************************************************************************)
ValueChars == {"0", "1", "2", ".", ",", "g"}

ValueTexts == UNION {[1..n -> ValueChars] : n \in 0..MaxValueLen}

NumInit ==
    /\ cnv_value \in {None} \cup {Str(s) : s \in ValueTexts}
    /\ cnv_default \in {PyInt(0), PyInt(100)}
    /\ cnv_result = [exc |-> "not called", val |-> PyInt(0)]

\* generate.py:124-130: a call from main()
CallCleanNumericValue ==
    /\ cnv_result.exc = "not called"
    /\ cnv_result' = clean_numeric_value(cnv_value, cnv_default, FALSE)
    /\ UNCHANGED << cnv_value, cnv_default >>

\* The pipelines not under study rest in these states.
NoRead == [read |-> FALSE, line |-> Line(FALSE, FALSE, FALSE, << >>),
           names |-> {}, foods |-> << >>]

LineIdle == last_read = NoRead

DedupIdle ==
    /\ df = << >>
    /\ modes_run = {}
    /\ df_deduplicated = << >>
    /\ unique_df = << >>
    /\ summary_df = << >>
    /\ df_unique = << >>

NumIdle ==
    /\ cnv_value = None
    /\ cnv_default = PyInt(0)
    /\ cnv_result = [exc |-> "not called", val |-> PyInt(0)]

(***************************************************************************)
(* The final output alone, from any short list of accepted records: the    *)
(* state in which an interrupt during the pause of line 160 ends the first *)
(* iteration, whose response held one line per record.                     *)
(***************************************************************************)
OBriensBar == <<"O", "'", "B", "r", "i", "e", "n", "'", "s", " ", "B", "a", "r">>

FinalNames ==
    { OBriensBar, <<"'">>, <<"'", "'">>, <<"a", "'">>, <<"'", ")", ",">>, <<"x">> }

\* The objects of the response lines: a name, and maybe a brand and a category.
FinalObjects ==
    { ("name" :> Str(n)) @@ b @@ c :
        n \in FinalNames,
        b \in { << >>, ("brand" :> Str(<<"O", "'", "B">>)) },
        c \in { << >>, ("category" :> Str(<<"S", "n", "a", "c", "k", "'", "s">>)
                        @@ "calories" :> Str(<<"1", ",", "2", "0", "0">>)) } }

\* generated_foods after the lines objs, read in order by generate.py:112-144
RECURSIVE AcceptAll(_, _, _)
AcceptAll(objs, foods, names) ==
    IF objs = << >> THEN foods
    ELSE LET r == ProcessLine(Line(TRUE, TRUE, TRUE, Head(objs)), names, "none")
         IN  IF r.accepted
             THEN AcceptAll(Tail(objs), Append(foods, r.food), names \cup {r.food.name})
             ELSE AcceptAll(Tail(objs), foods, names)

NamesOf(foods) == {foods[i].name : i \in 1..Len(foods)}

FinalInit ==
    /\ \E n \in 0..MaxFinalFoods : \E objs \in [1..n -> FinalObjects] :
          /\ generated_foods = AcceptAll(objs, << >>, SeededNames)
          /\ Len(generated_foods) = n
    /\ existing_names = SeededNames \cup NamesOf(generated_foods)
    /\ pc = "final"
    /\ iteration = 1
    /\ empty_iterations = IF generated_foods = << >> THEN 1 ELSE 0
    /\ new_count = Len(generated_foods)
    /\ lines_read = Len(generated_foods)
    /\ files = << >>
    /\ writes = << >>
    /\ zero_streak = empty_iterations
    /\ interrupted = "sleep2"

line_vars == << last_read >>

vars == << gen_vars, ext_vars, dd_vars, num_vars, line_vars >>


(***************************************************************************)
(* The properties.                                                         *)
(***************************************************************************)
BarX == <<"B", "a", "r", " ", "X">>

AlmondsLower == <<"a", "l", "m", "o", "n", "d", "s", " ", "(", "r", "a", "w", ")">>

\* C1: after 10 consecutive iterations that each accepted no record, whatever
\* made them yield nothing (an exception included), the loop makes no further
\* call to the endpoint.
C1_NoCallAfterTenEmptyIterations ==
    zero_streak >= max_empty_iterations => pc # "call"

\* The final output step has run on the records accepted so far.
FinalOutputWritten ==
    generated_foods # << >> =>
        /\ SqlFile \in DOMAIN files
        /\ JsonFile \in DOMAIN files
        /\ files[SqlFile].data = SqlOutput(generated_foods)
        /\ files[JsonFile] = JsonDump(generated_foods)

\* C2: an interrupt that arrives during the endpoint call, during response
\* parsing, during the 2-second pause or during the 3-second pause after a
\* failed iteration ends the loop, and the final output is written from the
\* records accepted so far.
C2_InterruptEndsLoopCleanly ==
    interrupted \in {"call", "parse", "numeric", "sleep2", "sleep3"} =>
        /\ pc \in {"final", "done"}
        /\ pc = "done" => FinalOutputWritten

\* C5: the accepted records have pairwise distinct names, each name is
\* stripped and not empty, none is a seeded food, and the seen-name set is the
\* seeded names plus the accepted names.
C5_AcceptedNamesDistinct ==
    /\ \A i, j \in 1..Len(generated_foods) :
          generated_foods[i].name = generated_foods[j].name => i = j
    /\ \A i \in 1..Len(generated_foods) :
          /\ generated_foods[i].name # << >>
          /\ generated_foods[i].name = Strip(generated_foods[i].name)
          /\ generated_foods[i].name \notin SeededNames
    /\ existing_names = SeededNames \cup NamesOf(generated_foods)

\* C5's case: a name differing from a seeded one by case only was accepted,
\* Bar X was accepted once, and a later iteration found nothing new in a
\* response of MaxLines lines.
C5_Witness ==
    /\ NamesOf(generated_foods) = {BarX, AlmondsLower}
    /\ pc = "tally"
    /\ new_count = 0
    /\ lines_read = MaxLines

C7_CheckpointWhenDue ==
    /\ (pc = "sleep2" /\ iteration % 5 = 0) =>
          /\ CheckpointFile(iteration) \in DOMAIN files <=> generated_foods # << >>
          /\ generated_foods # << >> =>
                files[CheckpointFile(iteration)] = JsonDump(generated_foods)
    /\ pc = "sleep3" => CheckpointFile(iteration) \notin DOMAIN files
    /\ \A n \in 1..(iteration - 1) : CheckpointFile(n) # CheckpointFile(iteration)

\* Every write ever made is still in place: its file holds what it wrote.
C7_NoFileOverwritten ==
    \A k \in 1..Len(writes) :
        /\ writes[k].name \in DOMAIN files
        /\ files[writes[k].name] = writes[k].contents

InitGen == GenInit /\ ExtInit /\ DedupIdle /\ NumIdle /\ LineIdle

NextGen ==
    \/ LoopTop /\ UNCHANGED << ext_vars, dd_vars, num_vars, line_vars >>
    \/ CallReturns /\ UNCHANGED << ext_vars, dd_vars, num_vars, line_vars >>
    \/ CallRaises /\ UNCHANGED << ext_vars, dd_vars, num_vars, line_vars >>
    \/ \E line \in ResponseLines, signal \in Signals :
          ParseLine(line, signal) /\ UNCHANGED << ext_vars, dd_vars, num_vars, line_vars >>
    \/ EndOfLines /\ UNCHANGED << ext_vars, dd_vars, num_vars, line_vars >>
    \/ Tally /\ UNCHANGED << ext_vars, dd_vars, num_vars, line_vars >>
    \/ Sleep2 /\ UNCHANGED << ext_vars, dd_vars, num_vars, line_vars >>
    \/ Sleep3 /\ UNCHANGED << ext_vars, dd_vars, num_vars, line_vars >>
    \/ Interrupt /\ UNCHANGED << ext_vars, dd_vars, num_vars, line_vars >>
    \/ FinalOutput /\ UNCHANGED << ext_vars, dd_vars, num_vars, line_vars >>

SpecGen == InitGen /\ [][NextGen]_vars

\* The extractor.
InitExt == GenInit /\ ExtInit /\ DedupIdle /\ NumIdle /\ LineIdle

NextExt ==
    \/ JsonLoadsRaises /\ UNCHANGED << gen_vars, dd_vars, num_vars, line_vars >>
    \/ RowStart /\ UNCHANGED << gen_vars, dd_vars, num_vars, line_vars >>
    \/ \E i \in 1..Len(Dishes) :
          DishMerged(Dishes[i]) /\ UNCHANGED << gen_vars, dd_vars, num_vars, line_vars >>
    \/ \E i \in 1..Len(Dishes) :
          DishRaises(Dishes[i]) /\ UNCHANGED << gen_vars, dd_vars, num_vars, line_vars >>
    \/ RowEnd /\ UNCHANGED << gen_vars, dd_vars, num_vars, line_vars >>
    \/ Save /\ UNCHANGED << gen_vars, dd_vars, num_vars, line_vars >>

SpecExt == InitExt /\ [][NextExt]_vars

RECURSIVE SumOfCounts(_)
SumOfCounts(profiles) ==
    IF profiles = << >> THEN 0 ELSE Head(profiles).count + SumOfCounts(Tail(profiles))

\* C3: once all rows are processed, for each food name the counts of its
\* profiles add up to the number of dishes of that name in the rows that
\* parsed without an error; a row that raised contributes nothing.
C3_CountsMatchParsedRows ==
    ex_pc = "saved" =>
        \A n \in FoodNames : SumOfCounts(ProfilesOf(unique_foods, n)) = parsed_count[n]

\* The (food name, profile) pairs stored in unique_foods.
StoredPairs ==
    UNION { { << unique_foods[i].name, unique_foods[i].profiles[k].nutritions >> :
                k \in 1..Len(unique_foods[i].profiles) } :
            i \in 1..Len(unique_foods) }

C6_ProfilesDistinct ==
    /\ \A i \in 1..Len(unique_foods) :
          LET profiles == unique_foods[i].profiles
          IN  /\ \A k, l \in 1..Len(profiles) :
                    profiles[k].nutritions = profiles[l].nutritions => k = l
              /\ \A k \in 1..Len(profiles) :
                    /\ profiles[k].count >= 1
                    /\ << unique_foods[i].name, profiles[k].nutritions >> \in DOMAIN seen
                    /\ profiles[k].count
                         = seen[<< unique_foods[i].name, profiles[k].nutritions >>]
    /\ \A i, j \in 1..Len(unique_foods) :
          unique_foods[i].name = unique_foods[j].name => i = j
    /\ StoredPairs = DOMAIN seen
    /\ ex_pc = "saved" => Len(csv_rows) = Cardinality(DOMAIN seen)

\* What lines 37-47 must do with the mapping of one dish.
C6_DishStep(dish) ==
    LET food_name == dish["name"]
        nutritions == BuildNutritions(dish["nutritions"], << >>, nan_made).val
        old == ProfilesOf(unique_foods, food_name)
        new == ProfilesOf(unique_foods', food_name)
        stored == {k \in 1..Len(old) : old[k].nutritions = nutritions}
    IN  /\ IF stored # {}
           THEN \E k \in stored : new = [old EXCEPT ![k].count = old[k].count + 1]
           ELSE new = Append(old, [nutritions |-> nutritions, count |-> 1])
        /\ \A n \in FoodNames \ {food_name} :
              ProfilesOf(unique_foods', n) = ProfilesOf(unique_foods, n)

C6_EveryDishStep ==
    \A i \in 1..Len(Dishes) : DishMerged(Dishes[i]) => C6_DishStep(Dishes[i])

\* C6: a dish whose mapping equals, key by key and value by value, a profile
\* stored under its name adds 1 to that profile's count and creates no
\* profile; any other dish appends a profile of count 1.  So the profiles of
\* one name are pairwise distinct, every count is at least 1 and is the number
\* of dishes merged with that name and mapping, and the output has one row per
\* distinct (food name, profile) pair.
C6_IdenticalProfilesShareOneCount ==
    []C6_ProfilesDistinct /\ [][C6_EveryDishStep]_vars

\* C6's case: two dishes named Oats with the same mapping and a third that
\* differs in one value, saved as two rows with the counts 2 and 1.
C6_Witness ==
    /\ ex_pc = "saved"
    /\ Len(ProfilesOf(unique_foods, "Oats")) = 2
    /\ ProfilesOf(unique_foods, "Oats")[1].count = 2
    /\ ProfilesOf(unique_foods, "Oats")[2].count = 1
    /\ DOMAIN ProfilesOf(unique_foods, "Oats")[1].nutritions
         = DOMAIN ProfilesOf(unique_foods, "Oats")[2].nutritions
    /\ Len(csv_rows) = 2

\* The deduplicator, on any frame.
InitDedup == GenInit /\ ExtInit /\ DedupInit /\ NumIdle /\ LineIdle

NextDedup ==
    \/ RunRemoveDuplicateFoodNames /\ UNCHANGED << gen_vars, ext_vars, num_vars, line_vars >>
    \/ RunRemoveDuplicatesAndSummarize /\ UNCHANGED << gen_vars, ext_vars, num_vars, line_vars >>
    \/ RunSimpleDeduplicate /\ UNCHANGED << gen_vars, ext_vars, num_vars, line_vars >>

SpecDedup == InitDedup /\ [][NextDedup]_vars

\* The rows of the frame that no earlier row shares its Food Name with, from
\* row i on, in input order.
RECURSIVE FirstRows(_, _)
FirstRows(frame, i) ==
    IF i > Len(frame) THEN << >>
    ELSE (IF \A j \in 1..(i - 1) : frame[j].name # frame[i].name
          THEN << frame[i] >> ELSE << >>)
         \o FirstRows(frame, i + 1)

\* C4: each of the three modes keeps exactly the first row, in input order,
\* of each distinct Food Name, the kept rows in their input order; so the
\* three modes keep the same rows.
C4_ModesKeepTheSameRows ==
    /\ "remove_duplicate_food_names" \in modes_run =>
          df_deduplicated = FirstRows(df, 1)
    /\ "remove_duplicates_and_summarize" \in modes_run =>
          unique_df = FirstRows(df, 1)
    /\ "simple_deduplicate" \in modes_run =>
          df_unique = FirstRows(df, 1)

\* C4's case: the names [A,B,A,C,B], on which all three modes have run and
\* kept rows 1, 2 and 4.
C4_Witness ==
    /\ NameColumn(df) = << "Oats", "Rice", "Oats", "Tofu", "Rice" >>
    /\ modes_run = {"remove_duplicate_food_names", "remove_duplicates_and_summarize",
                    "simple_deduplicate"}
    /\ df_deduplicated = << df[1], df[2], df[4] >>
    /\ unique_df = df_deduplicated
    /\ df_unique = df_deduplicated

RowsNamed(n) == {i \in 1..Len(df) : df[i].name = n}

FirstRowNamed(n) == CHOOSE i \in RowsNamed(n) : \A j \in RowsNamed(n) : i <= j

\* The summary holds exactly one row for each name of the set, with the
\* removed count and the kept row's columns the input determines.
SummaryCovers(names) ==
    /\ \A n \in names :
          \E k \in 1..Len(summary_df) :
             /\ summary_df[k].name = n
             /\ summary_df[k].removed_count = Cardinality(RowsNamed(n)) - 1
             /\ summary_df[k].kept_profile_no = df[FirstRowNamed(n)].profile_no
             /\ summary_df[k].kept_occurrences = df[FirstRowNamed(n)].occurrences
    /\ \A k \in 1..Len(summary_df) : summary_df[k].name \in names
    /\ \A k, l \in 1..Len(summary_df) :
          summary_df[k].name = summary_df[l].name => k = l

\* C8: the summary mode emits exactly one row for each Food Name that occurs
\* in more than one input row and none for a name occurring once; the row's
\* removed count is the number of rows of that name minus one, its kept
\* profile number and occurrence count are those of the first row of that name.
C8_OneSummaryRowPerDuplicatedName ==
    "remove_duplicates_and_summarize" \in modes_run =>
        SummaryCovers({n \in CsvNames : Cardinality(RowsNamed(n)) > 1})

\* The same for the names that are present: a missing Food Name gets no row.
SummaryOfPresentNames ==
    "remove_duplicates_and_summarize" \in modes_run =>
        SummaryCovers({n \in CsvNames \ {NaN} : Cardinality(RowsNamed(n)) > 1})

\* clean_numeric_value, on any value.
InitNum == GenInit /\ ExtInit /\ DedupIdle /\ NumInit /\ LineIdle

NextNum == CallCleanNumericValue /\ UNCHANGED << gen_vars, ext_vars, dd_vars, line_vars >>

SpecNum == InitNum /\ [][NextNum]_vars

\* The elements of s at the positions kept, in order.
Pick(s, kept) ==
    LET nth(k) == CHOOSE i \in kept : Cardinality({j \in kept : j < i}) = k - 1
    IN  [k \in 1..Cardinality(kept) |-> s[nth(k)]]

\* The digit and point characters of a text, in order.
Remainder(text) ==
    Pick(text, {i \in 1..Len(text) : text[i] \in Digits \cup {"."}})

\* number is the value the text of digits and at most one point denotes
Denotes(number, text) ==
    LET whole == SelectSeq(text, LAMBDA c : c # ".")
        decimals == IF CountOf(".", text) = 0 THEN 0
                    ELSE Len(text) - (CHOOSE i \in 1..Len(text) : text[i] = ".")
    IN  /\ number.k = "float"
        /\ number.e <= decimals
        /\ number.m * Pow10(decimals - number.e) = DigitsToInt(whole)

\* C10: clean_numeric_value raises for no input; it drops every character
\* but digits and the decimal point and returns the number the remainder
\* denotes ("1,200" gives 1200), and it returns the default when the input is
\* absent, when the remainder is empty, and when the remainder is no number
\* (no digit, or more than one point).
C10_CleanNumericValueNeverRaises ==
    cnv_result.exc # "not called" =>
        /\ cnv_result.exc = "none"
        /\ IF cnv_value = None THEN cnv_result.val = cnv_default
           ELSE LET rest == Remainder(cnv_value.s)
                IN  IF \/ rest = << >>
                       \/ CountOf(".", rest) > 1
                       \/ \A i \in 1..Len(rest) : rest[i] = "."
                    THEN cnv_result.val = cnv_default
                    ELSE Denotes(cnv_result.val, rest)
        /\ cnv_value = Str(<<"1", ",", "2", "0", "0">>) =>
              cnv_result.val = [k |-> "float", m |-> 1200, e |-> 0]

\* C10's case: "1,200" cleaned to 1200.0 with 0 as the default.
C10_Witness ==
    /\ cnv_value = Str(<<"1", ",", "2", "0", "0">>)
    /\ cnv_default = PyInt(0)
    /\ cnv_result = [exc |-> "none", val |-> [k |-> "float", m |-> 1200, e |-> 0]]

\* The final output, on any short list of accepted records.
InitFinal == FinalInit /\ ExtInit /\ DedupIdle /\ NumIdle /\ LineIdle

NextFinal == FinalOutput /\ UNCHANGED << ext_vars, dd_vars, num_vars, line_vars >>

SpecFinal == InitFinal /\ [][NextFinal]_vars

\* The first position of the run of single quotes that ends at j.
RunStart(s, j) == CHOOSE r \in 1..j :
    /\ \A k \in r..j : s[k] = "'"
    /\ r = 1 \/ s[r - 1] # "'"

\* The quote closing the text field opened at i: the end of the first run of
\* single quotes after i that has an odd length; 0 when there is none.
ClosingQuote(s, i) ==
    LET ends == {j \in (i + 1)..Len(s) :
                    /\ s[j] = "'"
                    /\ j = Len(s) \/ s[j + 1] # "'"
                    /\ (j - (IF RunStart(s, j) <= i THEN i + 1 ELSE RunStart(s, j)) + 1) % 2 = 1}
    IN  IF ends = {} THEN 0 ELSE CHOOSE j \in ends : \A k \in ends : j <= k

\* The text a field's content stands for: of every two single quotes, one.
Unquote(content) ==
    Pick(content, {k \in 1..Len(content) :
                      content[k] = "'" => (k - RunStart(content, k) + 1) % 2 = 1})

\* The fields of one values-tuple, from position i of its inside on: fields
\* separated by a comma and a blank, a text field between single quotes, a
\* number field of digits and points.
RECURSIVE ReadFields(_, _, _)
ReadFields(s, i, fields) ==
    LET fail == [ok |-> FALSE, fields |-> fields]
        after(j, field) ==
            IF j = Len(s) THEN [ok |-> TRUE, fields |-> Append(fields, field)]
            ELSE IF j + 2 <= Len(s) /\ s[j + 1] = "," /\ s[j + 2] = " "
            THEN ReadFields(s, j + 3, Append(fields, field))
            ELSE fail
    IN  IF i > Len(s) THEN fail
        ELSE IF s[i] = "'"
        THEN LET j == ClosingQuote(s, i)
             IN  IF j = 0 THEN fail
                 ELSE after(j, [quoted |-> TRUE, text |-> Unquote(SubSeq(s, i + 1, j - 1))])
        ELSE IF s[i] \in Digits
        THEN LET j == CHOOSE j \in i..Len(s) :
                        /\ \A k \in i..j : s[k] \in Digits \cup {"."}
                        /\ j = Len(s) \/ s[j + 1] \notin Digits \cup {"."}
             IN  after(j, [quoted |-> FALSE, text |-> SubSeq(s, i, j)])
        ELSE fail

\* A reader of the statement's values: one tuple in parentheses on each line,
\* a comma at the end of every line but the last and one semicolon at the end
\* of the last.  It returns the tuples read, or ok = FALSE.
ReadSql(s) ==
    LET breaks == {i \in 1..Len(s) : s[i] = "\n"}
        count == Cardinality(breaks) + 1
        break(k) == CHOOSE i \in breaks : Cardinality({j \in breaks : j < i}) = k - 1
        first(k) == IF k = 1 THEN 1 ELSE break(k - 1) + 1
        last(k) == IF k = count THEN Len(s) ELSE break(k) - 1
        wellFormed(k) ==
            /\ last(k) - first(k) >= 2
            /\ s[first(k)] = "("
            /\ s[last(k) - 1] = ")"
            /\ s[last(k)] = (IF k = count THEN ";" ELSE ",")
        inside(k) == SubSeq(s, first(k) + 1, last(k) - 2)
    IN  IF \A k \in 1..count : wellFormed(k) /\ ReadFields(inside(k), 1, << >>).ok
        THEN [ok |-> TRUE,
              tuples |-> [k \in 1..count |-> ReadFields(inside(k), 1, << >>).fields]]
        ELSE [ok |-> FALSE, tuples |-> << >>]

\* escaped is text with every single quote doubled and nothing else changed
QuotesDoubled(text, escaped) ==
    LET at(i) == i + CountOf("'", SubSeq(text, 1, i - 1))
    IN  /\ Len(escaped) = Len(text) + CountOf("'", text)
        /\ \A i \in 1..Len(text) :
              /\ escaped[at(i)] = text[i]
              /\ text[i] = "'" => escaped[at(i) + 1] = "'"

StringFields == {"name", "brand", "serving_unit", "confidence", "category"}

\* the positions of the string fields in a values-tuple
FieldAt ==
    ("name" :> 1 @@ "brand" :> 2 @@ "serving_unit" :> 10 @@ "confidence" :> 11
       @@ "category" :> 13)

\* C9: escape_sql_string doubles every single quote of its input and changes
\* nothing else, and the statement written holds one values-tuple per accepted
\* record, in acceptance order, each string field between quotes and escaped
\* so, the tuples separated by commas, and a single semicolon at the end.
C9_SqlStatementEscaped ==
    (pc = "done" /\ generated_foods # << >>) =>
        /\ SqlFile \in DOMAIN files
        /\ LET data == files[SqlFile].data
               read == ReadSql(Tail(data))
           IN  /\ Head(data) = SqlHeader
               /\ data[Len(data)] = ";"
               /\ data[Len(data) - 1] = ")"
               /\ read.ok
               /\ Len(read.tuples) = Len(generated_foods)
               /\ \A i \in 1..Len(generated_foods) :
                     /\ Len(read.tuples[i]) = 13
                     /\ \A f \in StringFields :
                           /\ read.tuples[i][FieldAt[f]].quoted
                           /\ read.tuples[i][FieldAt[f]].text = generated_foods[i][f]
        /\ \A i \in 1..Len(generated_foods) : \A f \in StringFields :
              QuotesDoubled(generated_foods[i][f],
                            escape_sql_string(Str(generated_foods[i][f])))

\* C9's case: O'Brien's Bar is the first of two accepted records, and the
\* statement written begins with ('O''Brien''s Bar'.
C9_Witness ==
    /\ pc = "done"
    /\ Len(generated_foods) = 2
    /\ generated_foods[1].name = OBriensBar
    /\ SqlFile \in DOMAIN files
    /\ SubSeq(files[SqlFile].data, 2, 19)
         = << "(", "'", "O", "'", "'", "B", "r", "i", "e", "n", "'", "'", "s",
              " ", "B", "a", "r", "'" >>

(***************************************************************************)
(* generate.py:112-144 alone: the lines of the first response, read one by *)
(* one, with a history of the line read last.                              *)
(***************************************************************************)
LineReadings ==
    ResponseLines \cup { Line(TRUE, TRUE, TRUE, FoodOBrien),
                         Line(TRUE, TRUE, TRUE, FoodNullCategory) }

\* generate.py:67-110: main() up to the arrival of the first response
LineInit ==
    /\ pc = "parse"
    /\ iteration = 1
    /\ empty_iterations = 0
    /\ generated_foods = << >>
    /\ existing_names = SeededNames
    /\ new_count = 0
    /\ lines_read = 0
    /\ files = << >>
    /\ writes = << >>
    /\ zero_streak = 0
    /\ interrupted = "no"
    /\ last_read = NoRead

\* generate.py:112-144, one line of the response, and what it met
ReadLine(line, signal) ==
    /\ ParseLine(line, signal)
    /\ last_read' = [read |-> TRUE, line |-> line,
                     names |-> existing_names, foods |-> generated_foods]

InitLine == LineInit /\ ExtInit /\ DedupIdle /\ NumIdle

NextLine ==
    \/ \E line \in LineReadings, signal \in Signals :
          ReadLine(line, signal) /\ UNCHANGED << ext_vars, dd_vars, num_vars >>
    \/ EndOfLines /\ UNCHANGED << ext_vars, dd_vars, num_vars, line_vars >>

SpecLine == InitLine /\ [][NextLine]_vars

\* The line starts with "{", ends with "}" and parses as JSON, and its name
\* is a text that is not blank and not in the seen-name set.
Eligible(line, names) ==
    /\ line.starts /\ line.ends /\ line.valid
    /\ "name" \in DOMAIN line.obj
    /\ line.obj["name"].t = "str"
    /\ Strip(line.obj["name"].s) # << >>
    /\ Strip(line.obj["name"].s) \notin names

\* The record is the line's, with the documented values where a field is missing.
RecordOf(obj, food) ==
    /\ food.name = Strip(obj["name"].s)
    /\ "brand" \notin DOMAIN obj => food.brand = <<"G", "e", "n", "e", "r", "i", "c">>
    /\ "serving_unit" \notin DOMAIN obj => food.serving_unit = <<"g">>
    /\ "category" \notin DOMAIN obj =>
          food.category = <<"U", "n", "k", "n", "o", "w", "n">>
    /\ \A i \in 1..Len(NumericFields) :
          LET f == NumericFields[i]
              rest == SelectSeq(obj[f].s, LAMBDA c : c \in Digits \cup {"."})
          IN  (\/ f \notin DOMAIN obj
               \/ obj[f] = None
               \/ rest = << >>
               \/ CountOf(".", rest) > 1
               \/ \A k \in 1..Len(rest) : rest[k] = ".")
              => food[f] = (IF f = "serving_size" THEN PyInt(100) ELSE PyInt(0))
    /\ food.confidence = <<"e", "s", "t", "i", "m", "a", "t", "e", "d">>
    /\ food.popularity = PyInt(50)

\* The line read last was accepted: one record more, and its name seen.
Accepted ==
    /\ Len(generated_foods) = Len(last_read.foods) + 1
    /\ SubSeq(generated_foods, 1, Len(last_read.foods)) = last_read.foods
    /\ RecordOf(last_read.line.obj, generated_foods[Len(generated_foods)])
    /\ existing_names = last_read.names \cup {Strip(last_read.line.obj["name"].s)}

Discarded ==
    /\ generated_foods = last_read.foods
    /\ existing_names = last_read.names

\* C11: a line that starts with "{", ends with "}" and parses as JSON, whose
\* name is not blank and not seen, is accepted into the result set and the
\* seen-name set whatever its other fields hold, the missing text fields and
\* the missing or unparsable numeric fields replaced by their defaults; any
\* other line is discarded, and no line is discarded for another cause.
C11_EveryEligibleLineAccepted ==
    last_read.read =>
        IF Eligible(last_read.line, last_read.names) THEN Accepted ELSE Discarded

\* brand, serving unit and category are texts where they are present
TextFieldsAreTexts(obj) ==
    \A f \in {"brand", "serving_unit", "category"} :
        f \in DOMAIN obj => obj[f].t = "str"

\* The same for the lines whose text fields are texts: a line with another
\* value there (null, a number) is discarded.
EligibleLineWithTextFieldsAccepted ==
    last_read.read =>
        IF /\ Eligible(last_read.line, last_read.names)
           /\ TextFieldsAreTexts(last_read.line.obj)
        THEN Accepted ELSE Discarded

====
